---- MODULE Spec2Model ----
(***************************************************************************)
(* A model of the coconut LimeSurvey client (coconut/lime.py): the patched *)
(* JSON-RPC reply parser, the session handling of LimeAPI (authenticate,   *)
(* _validate_auth, request_ctx) and the API operations built on them; and  *)
(* of the survey model (coconut/survey.py, coconut/question.py): the       *)
(* question hierarchy, the title index, group values and the survey title. *)
(***************************************************************************)
EXTENDS Integers, Sequences, FiniteSets, TLC

VARIABLES
    session_key,            \* LimeAPI.session_key
    rpc_client,             \* LimeAPI.rpc_client
    rpc_proxy,              \* LimeAPI.rpc_proxy
    _authenticated,         \* LimeAPI._authenticated
    _rpc_protocol_patched,  \* LimeAPI._rpc_protocol_patched (class attribute)
    live,                   \* the session keys the server currently accepts
    untouched,              \* no write to the token or handles since the last successful authenticate()
    call,                   \* the last public call and the state it started from
    trace,                  \* the network/handshake events of the last public call
    inflight,               \* the exception raised inside the last public call, if any
    error,                  \* request_ctx: its local variable `error`
    outcome,                \* what the caller of the last public call got
    data,                   \* parse_reply_patched: the reply body handed to it
    response,               \* parse_reply_patched: what it produced
    credentials,            \* LimeAPI.url, .username, .password, .headers
    fetched,                \* what the server sent for the call at hand
    survey,                 \* the Survey object and its Question objects
    answers,                \* Response.data of the response at hand
    clients,                \* the other LimeAPI objects of the process
    patches                 \* how often patch_json_rpc_protocol() has run

vars == <<session_key, rpc_client, rpc_proxy, _authenticated,
          _rpc_protocol_patched, live, untouched, call, trace, inflight,
          error, outcome, data, response, credentials, fetched, survey, answers,
          clients, patches>>

surveyVars == <<fetched, survey, answers>>

processVars == <<clients, patches>>

apiVars == <<session_key, rpc_client, rpc_proxy, _authenticated,
             _rpc_protocol_patched, live, untouched, call, trace, inflight,
             error, outcome>>

-----------------------------------------------------------------------------
(* Python / JSON values.  A value is a record tagged by its type.          *)

JNull == [t |-> "null"]
JStr(s) == [t |-> "str", s |-> s]
JNum(n) == [t |-> "num", n |-> n]
JList(l) == [t |-> "list", l |-> l]
JObj(o) == [t |-> "obj", o |-> o]
(* A mapping whose key order matters to the code: ks lists its keys in     *)
(* the order of the document.                                              *)
JOrd(ks, o) == [t |-> "obj", o |-> o, ks |-> ks]

None == JNull

IsStr(v) == v.t = "str"
IsObj(v) == v.t = "obj"
HasKey(v, k) == k \in DOMAIN v.o

(* Exceptions and the two ways a call ends.                                *)
Exc(type, args) == [type |-> type, args |-> args]
NoExc == Exc("none", <<>>)
Raise(e) == [kind |-> "raise", exc |-> e]
Return(v) == [kind |-> "return", value |-> v]
NotCalled == [kind |-> "none"]

-----------------------------------------------------------------------------
(* parse_reply_patched                                                     *)

AllowedReplyKeys == {"id", "jsonrpc", "error", "result"}

UndecodableBody == [b |-> "undecodable"]
TextBody == [b |-> "text"]
JsonBody(rep) == [b |-> "json", rep |-> rep]

ErrorResponse(message, code, hasData, dataValue, id) ==
    [kind |-> "error", error |-> message, _jsonrpc_error_code |-> code,
     has_data |-> hasData, data |-> dataValue, unique_id |-> id]

SuccessResponse(result, id) ==
    [kind |-> "success", result |-> result, unique_id |-> id]

(* The unpatched reading of the error member: a mapping only.              *)
ParseErrorUnpatched(rep) ==
    LET err == rep.o["error"] IN
    IF ~IsObj(err)
    THEN Raise(Exc("TypeError", <<JStr("error")>>))
    ELSE IF ~HasKey(err, "message")
    THEN Raise(Exc("KeyError", <<JStr("message")>>))
    ELSE IF ~HasKey(err, "code")
    THEN Raise(Exc("KeyError", <<JStr("code")>>))
    ELSE ErrorResponse(err.o["message"], err.o["code"], HasKey(err, "data"),
                       IF HasKey(err, "data") THEN err.o["data"] ELSE JNull,
                       rep.o["id"])

ParseError(rep) ==
    LET err == rep.o["error"] IN
    IF IsStr(err)
    THEN ErrorResponse(err, JNum(-1), FALSE, JNull, rep.o["id"])
    ELSE IF ~IsObj(err)
    THEN Raise(Exc("TypeError", <<JStr("error")>>))
    ELSE IF ~HasKey(err, "message")
    THEN Raise(Exc("KeyError", <<JStr("message")>>))
    ELSE IF ~HasKey(err, "code")
    THEN Raise(Exc("KeyError", <<JStr("code")>>))
    ELSE ErrorResponse(err.o["message"], err.o["code"], HasKey(err, "data"),
                       IF HasKey(err, "data") THEN err.o["data"] ELSE JNull,
                       rep.o["id"])

ParseReply(d) ==
    IF d.b = "undecodable"
    THEN Raise(Exc("UnicodeDecodeError", <<>>))
    ELSE IF d.b = "text"
    THEN Raise(Exc("InvalidReplyError", <<JStr("not JSON")>>))
    ELSE LET rep == d.rep IN
         IF ~IsObj(rep)
         THEN Raise(Exc("AttributeError", <<JStr("keys")>>))
         ELSE IF \E k \in DOMAIN rep.o : k \notin AllowedReplyKeys
         THEN Raise(Exc("InvalidReplyError", <<JStr("Key not allowed")>>))
         ELSE IF ~HasKey(rep, "id")
         THEN Raise(Exc("InvalidReplyError", <<JStr("Missing id in response")>>))
         ELSE IF HasKey(rep, "error") /\ rep.o["error"] # JNull
         THEN ParseError(rep)
         ELSE SuccessResponse(IF HasKey(rep, "result") THEN rep.o["result"] ELSE JNull,
                              rep.o["id"])

-----------------------------------------------------------------------------
(* The reply bodies the parser is checked on.                              *)

StructuredError(keys) ==
    JObj([k \in keys |-> IF k = "message" THEN JStr("no permission")
                         ELSE IF k = "code" THEN JNum(-32000)
                         ELSE JStr("details")])

ErrorValues ==
    {JNull, JStr("bad creds"), JStr(""), JNum(5), JList(<<>>)}
    \cup {StructuredError(ks) : ks \in SUBSET {"message", "code", "data"}}

Absent == [t |-> "absent"]

ReplyKeys == AllowedReplyKeys \cup {"version"}

Present(choice) == {k \in ReplyKeys : choice[k] # Absent}

Mappings ==
    {JObj([k \in Present(choice) |-> choice[k]]) :
        choice \in [id : {Absent, JNum(1), JNull},
                    result : {Absent, JNull, JStr("k1"), JObj([status |-> JStr("OK")])},
                    error : {Absent} \cup ErrorValues,
                    jsonrpc : {Absent, JStr("2.0")},
                    version : {Absent, JStr("1.1")}]}

NonMappings == {JNull, JNum(5), JStr("OK"), JList(<<>>)}

Bodies ==
    {UndecodableBody, TextBody} \cup {JsonBody(v) : v \in NonMappings \cup Mappings}

NoResponse == [kind |-> "none"]

ReceiveReply(d) ==
    /\ data' = d
    /\ response' = NoResponse
    /\ UNCHANGED <<apiVars, credentials, surveyVars, processVars>>

ParseReplyStep ==
    /\ response = NoResponse
    /\ response' = ParseReply(data)
    /\ UNCHANGED <<data, apiVars, credentials, surveyVars, processVars>>

-----------------------------------------------------------------------------
(* The client object and the server it talks to.                           *)

Url == JStr("http://lime")

_default_headers ==
    JObj(("content-type" :> JStr("application/json"))
         @@ ("connection" :> JStr("Keep-Alive")))

(* The settings a client is built from, and the placeholder for "the      *)
(* caller holds no client".                                                *)
Settings(url, username, password, headers) ==
    [instance |-> TRUE, url |-> url, username |-> username,
     password |-> password, headers |-> headers]
NoInstance ==
    [instance |-> FALSE, url |-> None, username |-> None,
     password |-> None, headers |-> None]

SessionKeys == {"k1", "k2"}

Self == [url |-> credentials.url,
         session_key |-> session_key, rpc_client |-> rpc_client,
         rpc_proxy |-> rpc_proxy, _authenticated |-> _authenticated,
         _rpc_protocol_patched |-> _rpc_protocol_patched]

ValidateRpcResources(self) ==
    IF self.rpc_client # "RPCClient" THEN FALSE
    ELSE IF self.rpc_proxy # "RPCProxy" THEN FALSE
    ELSE TRUE

ValidateSessionKey(self) ==
    IF self.session_key = None THEN FALSE
    ELSE IF ~IsStr(self.session_key) THEN FALSE
    ELSE IF IsStr(self.session_key) /\ Len(self.session_key.s) = 0 THEN FALSE
    ELSE TRUE

(* What the network does with one request: the transport fails, or the    *)
(* server's reply body arrives.                                            *)
TransportFails == [sent |-> FALSE, body |-> TextBody, issued |-> {}]
Replies(body) == [sent |-> TRUE, body |-> body, issued |-> {}]
Reply(fields) == Replies(JsonBody(JObj(fields)))
Issues(k) == [Reply([id |-> JNum(1), result |-> JStr(k), error |-> JNull])
                EXCEPT !.issued = {k}]

(* The call of a proxy method: send, parse the reply, raise on an error   *)
(* response, return the result.                                            *)
ProxyCall(net) ==
    IF ~net.sent
    THEN Raise(Exc("ConnectionError", <<>>))
    ELSE LET rep == ParseReply(net.body) IN
         IF rep.kind = "raise" THEN rep
         ELSE IF rep.kind = "error" THEN Raise(Exc("RPCError", <<rep.error>>))
         ELSE Return(rep.result)

NoArgs == [k \in {} |-> ""]
Event(ev) == [ev |-> ev, method |-> "", key |-> None, args |-> NoArgs]
KeyEvent(ev, key) == [ev |-> ev, method |-> "", key |-> key, args |-> NoArgs]
RpcEvent(method, key, args) == [ev |-> "rpc", method |-> method, key |-> key, args |-> args]

Done(self, exc, events) == [self |-> self, exc |-> exc, events |-> events]

AuthenticationErrorBare(self) == Exc("Exception", <<>>)

AuthenticationError(self) == Exc("Exception", <<self.url, self.session_key>>)

(* The statements of authenticate(): patch once, build the handles, ask   *)
(* for a session key, store it, validate it, set the flag.                 *)
Handshake(self, net) ==
    LET events == <<Event("authenticate")>>
                  \o (IF self._rpc_protocol_patched THEN <<>> ELSE <<Event("patch")>>)
                  \o <<Event("RPCClient"), Event("get_proxy"), Event("get_session_key")>>
        s1 == [self EXCEPT !._rpc_protocol_patched = TRUE,
                           !.rpc_client = "RPCClient",
                           !.rpc_proxy = "RPCProxy"]
        got == ProxyCall(net)
    IN  IF got.kind = "raise"
        THEN Done(s1, got.exc, events)
        ELSE LET s2 == [s1 EXCEPT !.session_key = got.value]
                 assigned == events \o <<KeyEvent("session_key", got.value)>>
             IN  IF ~ValidateSessionKey(s2)
                 THEN Done(s2, AuthenticationError(s2), assigned)
                 ELSE Done([s2 EXCEPT !._authenticated = TRUE], NoExc,
                           assigned \o <<Event("acquired")>>)

(* authenticate() that never sets _authenticated.                          *)
AuthenticateForgetful(self, net) ==
    LET done == Handshake(self, net)
    IN  Done([done.self EXCEPT !._authenticated = self._authenticated],
             done.exc, done.events)

(* authenticate() that returns at once when the session looks valid.       *)
AuthenticateLazy(self, net) ==
    IF self._authenticated /\ ValidateSessionKey(self) /\ ValidateRpcResources(self)
    THEN Done(self, NoExc, <<>>)
    ELSE Handshake(self, net)

Authenticate(self, net) == Handshake(self, net)

(* _validate_auth without its last branch.                                 *)
ValidateAuthIgnoringHandles(self, net) ==
    IF ~self._authenticated THEN Authenticate(self, net)
    ELSE IF ~ValidateSessionKey(self) THEN Authenticate(self, net)
    ELSE Done(self, NoExc, <<>>)

(* _validate_auth that trusts the _authenticated flag alone.               *)
ValidateAuthFlagOnly(self, net) ==
    IF ~self._authenticated THEN Authenticate(self, net)
    ELSE Done(self, NoExc, <<>>)

(* _validate_auth that refreshes the session on every call.                *)
ValidateAuthAlways(self, net) == Authenticate(self, net)

ValidateAuth(self, net) ==
    IF ~self._authenticated THEN Authenticate(self, net)
    ELSE IF ~ValidateSessionKey(self) THEN Authenticate(self, net)
    ELSE IF ~ValidateRpcResources(self) THEN Authenticate(self, net)
    ELSE Done(self, NoExc, <<>>)

-----------------------------------------------------------------------------
(* export_responses: the enumerations it declares and its decoding of the *)
(* exported document.                                                      *)

_completion_statuses == {"complete", "incomplete", "all"}
_heading_types == {"code", "full", "abbreviated"}
_response_types == {"short", "long"}

ExportDefaults == [completion_status |-> "all", heading_type |-> "code",
                   response_type |-> "long"]

Record1 == JObj([id |-> JNum(1), q1 |-> JStr("x")])
Record2 == JObj([id |-> JNum(2), q1 |-> JStr("y")])

TwoResponses ==
    JObj([responses |-> JList(<<JOrd(<<"r1">>, [r1 |-> Record1]),
                                JOrd(<<"r2">>, [r2 |-> Record2])>>)])

(* base64.b64decode(s).decode("utf-8") for the strings a server sends.     *)
IsBase64(s) == s \in {"b64:two", "b64:none", "b64:nokey", "b64:text", "b64:bytes"}

B64Decode(s) ==
    IF s = "b64:two" THEN JsonBody(TwoResponses)
    ELSE IF s = "b64:none" THEN JsonBody(JObj([responses |-> JList(<<>>)]))
    ELSE IF s = "b64:nokey" THEN JsonBody(JObj([status |-> JStr("No Data")]))
    ELSE IF s = "b64:text" THEN TextBody
    ELSE UndecodableBody

(* dict.values() of one id -> record map, in the order of its keys.        *)
MapValues(id_survey_map) ==
    [i \in DOMAIN id_survey_map.ks |-> id_survey_map.o[id_survey_map.ks[i]]]

RowsWrapped(result_json) == result_json

RECURSIVE Rows(_)
Rows(result_json) ==
    IF result_json = <<>> THEN <<>>
    ELSE MapValues(Head(result_json)) \o Rows(Tail(result_json))

(* json.loads of the decoded text, the "responses" entry and the rows.     *)
LoadDocument(doc) ==
         IF doc.b = "text" THEN Raise(Exc("JSONDecodeError", <<>>))
         ELSE IF ~IsObj(doc.rep) THEN Raise(Exc("TypeError", <<JStr("responses")>>))
         ELSE IF ~HasKey(doc.rep, "responses")
         THEN Raise(Exc("KeyError", <<JStr("responses")>>))
         ELSE LET result_json == doc.rep.o["responses"] IN
              IF result_json.t # "list"
              THEN Raise(Exc("TypeError", <<JStr("iterate")>>))
              ELSE IF \E i \in DOMAIN result_json.l : ~IsObj(result_json.l[i])
              THEN Raise(Exc("AttributeError", <<JStr("values")>>))
              ELSE Return(JList(Rows(result_json.l)))

DecodeExport(result_b64) ==
    IF ~IsStr(result_b64) THEN Raise(Exc("TypeError", <<JStr("b64decode")>>))
    ELSE IF ~IsBase64(result_b64.s) THEN Raise(Exc("binascii.Error", <<>>))
    ELSE LET doc == B64Decode(result_b64.s) IN
         IF doc.b = "undecodable" THEN Raise(Exc("UnicodeDecodeError", <<>>))
         ELSE LoadDocument(doc)

-----------------------------------------------------------------------------
(* request_ctx and the API operations.                                     *)

Endpoints == {"list_surveys", "list_questions", "get_language_properties",
              "get_survey_properties", "export_responses"}

Ran(result, events) == [result |-> result, events |-> events]

(* The block under `with self.request_ctx(...)`.                           *)
Body(self, method, args, net) ==
    IF self.rpc_proxy # "RPCProxy"
    THEN Ran(Raise(Exc("AttributeError", <<JStr(method)>>)), <<>>)
    ELSE LET sent == <<RpcEvent(method, self.session_key, args)>>
             result == ProxyCall(net)
         IN  IF method = "export_responses" /\ result.kind = "return"
             THEN Ran(DecodeExport(result.value), sent)
             ELSE Ran(result, sent)

RequestCtxSwallows(err, result) ==
    IF err # NoExc THEN Return(None) ELSE result

(* The end of request_ctx: `if error: raise error`.                        *)
RequestCtxExit(err, result) ==
    IF err # NoExc THEN Raise(err) ELSE result

Finished(self, events, raised, err, result) ==
    [self |-> self, events |-> events, inflight |-> raised, error |-> err,
     outcome |-> result]

(* request_ctx with one more attempt after a failed authentication.        *)
RequestCtxRetrying(self, method, args, authNet, rpcNet) ==
    LET first == ValidateAuth(self, authNet)
        auth == IF first.exc = NoExc THEN first
                ELSE LET again == ValidateAuth(first.self, authNet)
                     IN  Done(again.self, again.exc, first.events \o again.events)
    IN  IF auth.exc # NoExc
        THEN Finished(auth.self, auth.events, auth.exc, auth.exc,
                      RequestCtxExit(auth.exc, Return(None)))
        ELSE LET ran == Body(auth.self, method, args, rpcNet)
                 raised == IF ran.result.kind = "raise" THEN ran.result.exc ELSE NoExc
             IN  Finished(auth.self, auth.events \o ran.events, raised, raised,
                          RequestCtxExit(raised, ran.result))

RequestCtx(self, method, args, authNet, rpcNet) ==
    LET auth == ValidateAuth(self, authNet) IN
    IF auth.exc # NoExc
    THEN Finished(auth.self, auth.events, auth.exc, auth.exc,
                  RequestCtxExit(auth.exc, Return(None)))
    ELSE LET ran == Body(auth.self, method, args, rpcNet)
             raised == IF ran.result.kind = "raise" THEN ran.result.exc ELSE NoExc
         IN  Finished(auth.self, auth.events \o ran.events, raised, raised,
                      RequestCtxExit(raised, ran.result))

-----------------------------------------------------------------------------
(* The server side of the two kinds of request.                            *)

AuthReplies ==
    {TransportFails}
    \cup {Issues(k) : k \in SessionKeys}
    \cup {Reply([id |-> JNum(1), result |-> JStr(""), error |-> JNull]),
          Reply([id |-> JNum(1), result |-> JNull, error |-> JNull]),
          Reply([id |-> JNum(1), error |-> JNull,
                 result |-> JObj([status |-> JStr("Invalid user name or password")])]),
          Reply([id |-> JNum(1), result |-> JNull, error |-> JStr("bad creds")])}

Payload(method) ==
    IF method = "export_responses"
    THEN {JStr("b64:two"), JStr("b64:nokey")}
    ELSE {JList(<<JStr(method)>>)}

OpReplies(method, keyLive) ==
    {TransportFails,
     Reply([id |-> JNum(1), result |-> JNull, error |-> JStr("bad creds")])}
    \cup (IF keyLive
          THEN {Reply([id |-> JNum(1), result |-> v, error |-> JNull]) : v \in Payload(method)}
          ELSE {Reply([id |-> JNum(1), error |-> JNull,
                       result |-> JObj([status |-> JStr("Invalid session key")])])})

Attempted(events) == \E i \in DOMAIN events : events[i].ev = "get_session_key"
Acquired(events) == \E i \in DOMAIN events : events[i].ev = "acquired"

KeyLive(self, keys) == IsStr(self.session_key) /\ self.session_key.s \in keys

Pre == [session_key |-> session_key,
        authenticated |-> _authenticated,
        key_valid |-> ValidateSessionKey(Self),
        rpc_valid |-> ValidateRpcResources(Self),
        key_live |-> KeyLive(Self, live),
        untouched |-> untouched]

(* The attribute writes with `self._rpc_protocol_patched = True`: the      *)
(* object gets an attribute of its own and the class attribute stays as   *)
(* it was.                                                                 *)
StoreOnInstance(self) ==
    /\ session_key' = self.session_key
    /\ rpc_client' = self.rpc_client
    /\ rpc_proxy' = self.rpc_proxy
    /\ _authenticated' = self._authenticated
    /\ _rpc_protocol_patched' = _rpc_protocol_patched

Store(self) ==
    /\ session_key' = self.session_key
    /\ rpc_client' = self.rpc_client
    /\ rpc_proxy' = self.rpc_proxy
    /\ _authenticated' = self._authenticated
    /\ _rpc_protocol_patched' = self._rpc_protocol_patched

Served(events, authNet) ==
    /\ live' = IF Attempted(events) THEN live \cup authNet.issued ELSE live
    /\ untouched' = IF Acquired(events) THEN TRUE
                    ELSE IF Attempted(events) THEN FALSE
                    ELSE untouched
    /\ patches' = patches
                  + Cardinality({i \in DOMAIN events : events[i].ev = "patch"})

-----------------------------------------------------------------------------
(* The public calls.                                                       *)

CallAuthenticate ==
    \E net \in AuthReplies :
        \E r \in {Authenticate(Self, net)} :
            /\ Store(r.self)
            /\ Served(r.events, net)
            /\ call' = [name |-> "authenticate", args |-> NoArgs, pre |-> Pre]
            /\ trace' = r.events
            /\ inflight' = r.exc
            /\ error' = NoExc
            /\ outcome' = IF r.exc # NoExc THEN Raise(r.exc) ELSE Return(None)
            /\ UNCHANGED <<data, response, credentials, surveyVars, clients>>

(* The replies that matter to a call: the server is asked for a session    *)
(* key only if the call authenticates, and for the operation only if the   *)
(* call gets that far.                                                     *)
AuthInputs(self) ==
    IF Attempted(ValidateAuth(self, TransportFails).events)
    THEN AuthReplies
    ELSE {TransportFails}

RpcInputs(auth, method, keys) ==
    IF auth.exc # NoExc
    THEN {TransportFails}
    ELSE OpReplies(method, KeyLive(auth.self, keys))

ApiCall(method, args) ==
    \E authNet \in AuthInputs(Self) :
        \E auth \in {ValidateAuth(Self, authNet)} :
            \E rpcNet \in RpcInputs(auth, method,
                                    IF Attempted(auth.events)
                                    THEN live \cup authNet.issued ELSE live) :
                \E r \in {RequestCtx(Self, method, args, authNet, rpcNet)} :
                    /\ Store(r.self)
                    /\ Served(r.events, authNet)
                    /\ call' = [name |-> method, args |-> args, pre |-> Pre]
                    /\ trace' = r.events
                    /\ inflight' = r.inflight
                    /\ error' = r.error
                    /\ outcome' = r.outcome
                    /\ UNCHANGED <<data, response, credentials, surveyVars, clients>>

list_surveys == ApiCall("list_surveys", NoArgs)
list_questions == ApiCall("list_questions", NoArgs)
get_language_properties == ApiCall("get_language_properties", NoArgs)
get_survey_properties == ApiCall("get_survey_properties", NoArgs)

ExportArgs ==
    {ExportDefaults,
     [ExportDefaults EXCEPT !.completion_status = "finished"],
     [ExportDefaults EXCEPT !.heading_type = "verbose"],
     [ExportDefaults EXCEPT !.response_type = "medium"]}

export_responses == \E args \in ExportArgs : ApiCall("export_responses", args)

(* The code that owns the client closes one of its public handles.        *)
DropClient ==
    /\ rpc_client # "NoneType"
    /\ rpc_client' = "NoneType"
    /\ untouched' = FALSE
    /\ UNCHANGED <<session_key, rpc_proxy, _authenticated, _rpc_protocol_patched,
                   live, call, trace, inflight, error, outcome, data, response, credentials, surveyVars, processVars>>

DropProxy ==
    /\ rpc_proxy # "NoneType"
    /\ rpc_proxy' = "NoneType"
    /\ untouched' = FALSE
    /\ UNCHANGED <<session_key, rpc_client, _authenticated, _rpc_protocol_patched,
                   live, call, trace, inflight, error, outcome, data, response, credentials, surveyVars, processVars>>

(* The server ends a session.                                              *)
ServerExpires ==
    \E k \in live :
        /\ live' = live \ {k}
        /\ UNCHANGED <<session_key, rpc_client, rpc_proxy, _authenticated,
                       _rpc_protocol_patched, untouched, call, trace, inflight,
                       error, outcome, data, response, credentials, surveyVars, processVars>>

-----------------------------------------------------------------------------
NoBody == [b |-> "none"]

Constructed ==
    /\ credentials = Settings(Url, JStr("admin"), JStr("secret"), _default_headers)
    /\ session_key = None
    /\ rpc_client = "NoneType"
    /\ rpc_proxy = "NoneType"
    /\ _authenticated = FALSE
    /\ _rpc_protocol_patched = FALSE
    /\ live = {}
    /\ untouched = FALSE
    /\ call = [name |-> "none", args |-> NoArgs,
               pre |-> [session_key |-> None,
                        authenticated |-> FALSE, key_valid |-> FALSE,
                        rpc_valid |-> FALSE, key_live |-> FALSE,
                        untouched |-> FALSE]]
    /\ trace = <<>>
    /\ inflight = NoExc
    /\ error = NoExc
    /\ outcome = NotCalled
    /\ clients = <<>>
    /\ patches = 0

(* The Survey object before load_data: nothing fetched, nothing loaded,    *)
(* and no response at hand.                                                *)
EmptySurvey ==
    [loaded |-> FALSE, _title |-> None, survey_id |-> JNum(1),
     survey_props |-> None, questions_by_id |-> <<>>,
     question_groups_by_key |-> <<>>, questions_by_title |-> <<>>]

Unloaded ==
    /\ fetched = JNull
    /\ survey = EmptySurvey
    /\ answers = JNull

Init ==
    /\ Constructed
    /\ Unloaded
    /\ data = NoBody
    /\ response = NoResponse

Next ==
    \/ CallAuthenticate
    \/ list_surveys
    \/ list_questions
    \/ get_language_properties
    \/ get_survey_properties
    \/ export_responses
    \/ DropClient
    \/ DropProxy
    \/ ServerExpires

Spec == Init /\ [][Next]_vars

(* The parser alone, on every body of Bodies.                              *)
InitParse ==
    /\ Constructed
    /\ Unloaded
    /\ data \in Bodies
    /\ response = NoResponse

NextParse ==
    \/ \E d \in Bodies : ReceiveReply(d)
    \/ ParseReplyStep

SpecParse == InitParse /\ [][NextParse]_vars

-----------------------------------------------------------------------------
(* Properties of the session handling.                                     *)

ApiCalled == call.name \in Endpoints

Count(events, ev) == Cardinality({i \in DOMAIN events : events[i].ev = ev})

Authenticates(events) == Count(events, "authenticate") > 0

IsHandshakeStep(e) ==
    e.ev \in {"authenticate", "RPCClient", "get_proxy", "get_session_key"}

NeedsAuth(pre) == ~pre.authenticated \/ ~pre.key_valid \/ ~pre.rpc_valid

\* C1: an API operation calls authenticate() exactly when the client never
\* authenticated, its stored token fails validation, or a handle is absent.
C1_AuthenticatesExactlyWhenInvalid ==
    ApiCalled => (Authenticates(trace) <=> NeedsAuth(call.pre))

C1_Witness ==
    /\ ApiCalled
    /\ call.pre.authenticated /\ call.pre.key_valid /\ ~call.pre.rpc_valid
    /\ Authenticates(trace)

\* C2: once authenticate() has succeeded and nobody has written the token or
\* the handles since, an API operation performs no authentication at all.
C2_NoSecondRoundTrip ==
    (ApiCalled /\ call.pre.untouched) => Count(trace, "get_session_key") = 0

C2_Witness ==
    /\ ApiCalled /\ call.pre.untouched
    /\ outcome.kind = "return"
    /\ Count(trace, "rpc") = 1

\* C3 (as claimed): when the server has expired the token the client still
\* holds, the next API operation re-authenticates.
C3_SelfHealing ==
    (ApiCalled /\ call.pre.untouched /\ ~call.pre.key_live) => Authenticates(trace)

\* C3 (amended): a well-formed token that the server has expired is not
\* detected: the operation does not authenticate and sends its one RPC with
\* the stale token.
C3_StaleTokenIsSent ==
    (ApiCalled /\ ~NeedsAuth(call.pre) /\ ~call.pre.key_live)
        => trace = <<RpcEvent(call.name, call.pre.session_key, call.args)>>

C3_Witness ==
    /\ ApiCalled /\ call.pre.untouched /\ ~call.pre.key_live
    /\ Count(trace, "rpc") = 1
    /\ outcome = Return(JObj([status |-> JStr("Invalid session key")]))

ValidExportArgs(args) ==
    /\ args.completion_status \in _completion_statuses
    /\ args.heading_type \in _heading_types
    /\ args.response_type \in _response_types

\* C4: export_responses with an out-of-enumeration completion_status,
\* heading_type or response_type is rejected with InvalidParameterError
\* before any network call.
C4_InvalidParameterRejected ==
    (call.name = "export_responses" /\ ~ValidExportArgs(call.args))
        => /\ trace = <<>>
           /\ outcome.kind = "raise"
           /\ outcome.exc.type = "InvalidParameterError"

\* C7: an exception raised inside an API operation, in the session check or
\* in the call and its decoding, reaches the caller as that same exception;
\* the operation returns normally only when nothing was raised.
C7_ReraisedUnchanged ==
    ApiCalled => /\ inflight # NoExc => outcome = Raise(inflight)
                 /\ inflight = NoExc => outcome.kind = "return"
                 /\ error = inflight

C7_Witness ==
    /\ call.name = "export_responses"
    /\ outcome.kind = "raise"
    /\ outcome.exc.type \in {"KeyError", "RPCError", "Exception"}

AuthFailed(events) == Authenticates(events) /\ ~Acquired(events)

\* C8: an API operation makes at most one authentication attempt, then at
\* most one RPC call; after a failed attempt no RPC call is issued, and the
\* operation ends with a result or an error.
C8_OneAttemptThenOneCall ==
    ApiCalled => /\ Count(trace, "authenticate") <= 1
                 /\ Count(trace, "get_session_key") <= 1
                 /\ Count(trace, "rpc") <= 1
                 /\ \A i \in DOMAIN trace : trace[i].ev = "rpc" => i = Len(trace)
                 /\ AuthFailed(trace) => Count(trace, "rpc") = 0
                 /\ outcome.kind \in {"return", "raise"}

C8_Witness ==
    /\ ApiCalled
    /\ AuthFailed(trace)
    /\ outcome.kind = "raise"

Rejected(token) == token = None \/ ~IsStr(token) \/ token = JStr("")

\* C9: when get_session_key returns a token that is no non-empty string,
\* the authentication fails with an error that carries the url and the raw
\* token.
C9_BadTokenFails ==
    \A i \in DOMAIN trace :
        (trace[i].ev = "session_key" /\ Rejected(trace[i].key))
            => /\ outcome = Raise(Exc("Exception", <<Url, trace[i].key>>))
               /\ ~Acquired(trace)

C9_Witness ==
    /\ call.name = "authenticate"
    /\ \E i \in DOMAIN trace : /\ trace[i].ev = "session_key"
                               /\ IsObj(trace[i].key)
    /\ outcome.kind = "raise"

\* C10: every authenticate(), also on a client whose session is valid,
\* builds a new client and proxy and asks the server for a session key.
C10_FullHandshake ==
    (call.name = "authenticate" \/ Authenticates(trace))
        => SelectSeq(trace, IsHandshakeStep)
             = <<Event("authenticate"), Event("RPCClient"), Event("get_proxy"),
                 Event("get_session_key")>>

C10_Witness ==
    /\ call.name = "authenticate"
    /\ call.pre.untouched /\ ~NeedsAuth(call.pre)
    /\ Count(trace, "get_session_key") = 1

-----------------------------------------------------------------------------
(* Properties of parse_reply_patched.                                      *)

Parsed == response # NoResponse

PassesChecks(d) ==
    /\ d.b = "json"
    /\ IsObj(d.rep)
    /\ DOMAIN d.rep.o \subseteq AllowedReplyKeys
    /\ HasKey(d.rep, "id")

\* C5: a body that is not JSON, is no mapping, has a key outside the allow
\* list or lacks id makes the parser raise InvalidReplyError.
C5_MalformedRaisesInvalidReply ==
    (Parsed /\ ~PassesChecks(data))
        => response.kind = "raise" /\ response.exc.type = "InvalidReplyError"

HasError(d) == HasKey(d.rep, "error") /\ d.rep.o["error"] # JNull

WellFormedError(err) ==
    IsStr(err) \/ (IsObj(err) /\ HasKey(err, "message") /\ HasKey(err, "code"))

ErrorResponseFor(d) ==
    LET err == d.rep.o["error"] IN
    /\ response.kind = "error"
    /\ IsStr(err) => /\ response.error = err
                     /\ response._jsonrpc_error_code = JNum(-1)
    /\ IsObj(err) => /\ response.error = err.o["message"]
                     /\ response._jsonrpc_error_code = err.o["code"]
                     /\ response.has_data = HasKey(err, "data")
                     /\ HasKey(err, "data") => response.data = err.o["data"]

SuccessFor(d) ==
    /\ response.kind = "success"
    /\ response.result = IF HasKey(d.rep, "result") THEN d.rep.o["result"] ELSE JNull

-----------------------------------------------------------------------------
(* LimeAPI.__init__ and _validate_settings                                 *)

ValidateSettingsLax(self) ==
    IF None \in {self.url, self.username}
    THEN Raise(Exc("EnvironmentError", <<>>))
    ELSE Return(None)

ValidateSettings(self) ==
    IF None \in {self.url, self.username, self.password}
    THEN Raise(Exc("EnvironmentError", <<>>))
    ELSE Return(None)

(* The constructor: the attributes it assigns, what it sent over the      *)
(* network, and how it ended.                                              *)
New(url, username, password, headers) ==
    LET self == [url |-> url, username |-> username, password |-> password,
                 headers |-> IF headers = None THEN _default_headers ELSE headers,
                 session_key |-> None, rpc_client |-> "NoneType",
                 rpc_proxy |-> "NoneType", _authenticated |-> FALSE]
    IN  [self |-> self, events |-> <<>>, result |-> ValidateSettings(self)]

ConstructorArgs ==
    [url : {None, JStr(""), Url, JStr("https://lime/rc2")},
     username : {None, JStr(""), JStr("admin"), JStr("guest")},
     password : {None, JStr(""), JStr("secret"), JStr("hunter2")},
     headers : {None, JObj("content-type" :> JStr("application/json"))}]

NotConstructed ==
    /\ credentials = NoInstance
    /\ session_key = None
    /\ rpc_client = "NoneType"
    /\ rpc_proxy = "NoneType"
    /\ _authenticated = FALSE
    /\ _rpc_protocol_patched = FALSE
    /\ live = {}
    /\ untouched = FALSE
    /\ call = [name |-> "none", args |-> NoArgs]
    /\ trace = <<>>
    /\ inflight = NoExc
    /\ error = NoExc
    /\ outcome = NotCalled
    /\ clients = <<>>
    /\ patches = 0

(* LimeAPI(url, username, password, headers): the caller gets the object  *)
(* when __init__ returns and nothing when it raises.                       *)
Construct(url, username, password, headers) ==
    /\ call.name = "none"
    /\ \E r \in {New(url, username, password, headers)} :
        /\ call' = [name |-> "__init__",
                    args |-> [url |-> url, username |-> username,
                              password |-> password, headers |-> headers]]
        /\ trace' = trace \o r.events
        /\ outcome' = r.result
        /\ IF r.result.kind = "return"
           THEN /\ credentials' = Settings(r.self.url, r.self.username,
                                           r.self.password, r.self.headers)
                /\ session_key' = r.self.session_key
                /\ rpc_client' = r.self.rpc_client
                /\ rpc_proxy' = r.self.rpc_proxy
                /\ _authenticated' = r.self._authenticated
           ELSE UNCHANGED <<credentials, session_key, rpc_client, rpc_proxy,
                            _authenticated>>
        /\ UNCHANGED <<_rpc_protocol_patched, live, untouched, inflight, error, data,
                       response, surveyVars, processVars>>

InitConstruct ==
    /\ NotConstructed
    /\ Unloaded
    /\ data = NoBody
    /\ response = NoResponse

NextConstruct ==
    \E a \in ConstructorArgs : Construct(a.url, a.username, a.password, a.headers)

SpecConstruct == InitConstruct /\ [][NextConstruct]_vars

(* C11: a client built with url, username or password missing (None) is   *)
(* refused by the constructor with EnvironmentError and the caller holds   *)
(* no client; with all three present the constructor returns a client in   *)
(* the unauthenticated state and nothing was sent over the network.        *)
C11_ConstructionValidates ==
    call.name = "__init__" =>
        /\ trace = <<>>
        /\ IF None \in {call.args.url, call.args.username, call.args.password}
           THEN /\ outcome = Raise(Exc("EnvironmentError", <<>>))
                /\ credentials = NoInstance
           ELSE /\ outcome.kind = "return"
                /\ credentials.instance
                /\ credentials.url = call.args.url
                /\ credentials.username = call.args.username
                /\ credentials.password = call.args.password
                /\ session_key = None
                /\ ~_authenticated

C11_Witness ==
    /\ call.name = "__init__"
    /\ call.args.url # None
    /\ call.args.username # None
    /\ call.args.password = None
    /\ outcome.kind = "raise"
    /\ credentials = NoInstance

-----------------------------------------------------------------------------
(* export_responses: from the decoded document to the rows.                *)

MaxResponses == 3

(* The elements of a "responses" list: id -> record maps of one key (what *)
(* the server documents), of two keys in either order, of none, and an    *)
(* element that is no mapping.                                             *)
Wrappers == {JOrd(<<"r1">>, [r1 |-> Record1]),
             JOrd(<<"r2">>, [r2 |-> Record2]),
             JOrd(<<"r1", "r2">>, [r1 |-> Record1, r2 |-> Record2]),
             JOrd(<<"r2", "r1">>, [r1 |-> Record1, r2 |-> Record2]),
             JOrd(<<>>, <<>>)}

Envelopes == UNION {[1..n -> Wrappers \cup {JNum(7)}] : n \in 0..MaxResponses}

Documents ==
    {JsonBody(JObj([responses |-> JList(l)])) : l \in Envelopes}
    \cup {TextBody, JsonBody(JStr("No Data")),
          JsonBody(JObj([status |-> JStr("No Data")])),
          JsonBody(JObj([responses |-> JNull]))}

(* Lines 221-227 of export_responses on the text the server sent.          *)
LoadRows ==
    /\ call.name = "none"
    /\ call' = [call EXCEPT !.name = "export_responses"]
    /\ outcome' = LoadDocument(fetched)
    /\ UNCHANGED <<session_key, rpc_client, rpc_proxy, _authenticated,
                   _rpc_protocol_patched, live, untouched, trace, inflight,
                   error, data, response, credentials, surveyVars, processVars>>

InitExport ==
    /\ Constructed
    /\ fetched \in Documents
    /\ survey = EmptySurvey
    /\ answers = JNull
    /\ data = NoBody
    /\ response = NoResponse

NextExport == LoadRows

SpecExport == InitExport /\ [][NextExport]_vars

IsEnvelope(doc) ==
    /\ doc.b = "json"
    /\ IsObj(doc.rep)
    /\ HasKey(doc.rep, "responses")
    /\ doc.rep.o["responses"].t = "list"
    /\ \A i \in DOMAIN doc.rep.o["responses"].l : IsObj(doc.rep.o["responses"].l[i])

Envelope == fetched.rep.o["responses"].l

(* The number of responses in the wrappers before the i-th.                *)
Before(i) ==
    Cardinality({kj \in (1..(i - 1)) \X (1..2) : kj[2] <= Len(Envelope[kj[1]].ks)})

(* C12: export_responses returns a flat list with one record per response *)
(* of the "responses" envelope, in the order of the envelope (and of the   *)
(* keys inside one wrapper); each record is the inner mapping, without the *)
(* id key that wrapped it. With one response per wrapper, the i-th record  *)
(* is the i-th wrapper's inner mapping.                                    *)
C12_FlatRows ==
    (call.name = "export_responses" /\ IsEnvelope(fetched)) =>
        /\ outcome.kind = "return"
        /\ outcome.value.t = "list"
        /\ Len(outcome.value.l) = Before(Len(Envelope) + 1)
        /\ \A i \in DOMAIN Envelope : \A j \in DOMAIN Envelope[i].ks :
               /\ Before(i) + j \in DOMAIN outcome.value.l
               /\ outcome.value.l[Before(i) + j] = Envelope[i].o[Envelope[i].ks[j]]
        /\ (\A i \in DOMAIN Envelope : Len(Envelope[i].ks) = 1) =>
               Len(outcome.value.l) = Len(Envelope)

C12_Witness ==
    /\ call.name = "export_responses"
    /\ IsEnvelope(fetched)
    /\ Len(Envelope) = 3
    /\ \A i \in DOMAIN Envelope : Len(Envelope[i].ks) = 1
    /\ outcome = Return(JList(<<Record2, Record1, Record2>>))

-----------------------------------------------------------------------------
(* Python strings of the survey model: JStr of a sequence of characters.   *)
(* Alphabet lists the characters in code point order.                      *)

Alphabet == <<"\t", "\n", "\r", " ", "/", "0", "1", "2", "3", "4", "5", "6",
              "7", "8", "9", "<", ">", "A", "B", "C", "N", "P", "Q", "S", "[",
              "]", "a", "b", "c", "e", "h", "i", "n", "o", "r", "t", "u", "v",
              "x", "y">>

Ord(c) == CHOOSE i \in DOMAIN Alphabet : Alphabet[i] = c

(* a < b, a <= b on strings, as Python compares them.                      *)
RECURSIVE LexLess(_, _)
LexLess(a, b) ==
    IF b = <<>> THEN FALSE
    ELSE IF a = <<>> THEN TRUE
    ELSE IF Head(a) # Head(b) THEN Ord(Head(a)) < Ord(Head(b))
    ELSE LexLess(Tail(a), Tail(b))

Concat(a, b) == JStr(a.s \o b.s)

(* int(v) of a number or of a string of decimal digits.                    *)
RECURSIVE DecimalValue(_)
DecimalValue(chars) ==
    IF chars = <<>> THEN 0
    ELSE 10 * DecimalValue(SubSeq(chars, 1, Len(chars) - 1))
         + (Ord(chars[Len(chars)]) - Ord("0"))

int(v) == IF v.t = "num" THEN v.n ELSE DecimalValue(v.s)

(* A dict: its entries in insertion order. Assigning to a key that is     *)
(* present replaces the value and keeps the position.                      *)
Entry(k, v) == [k |-> k, v |-> v]
Keys(d) == {d[i].k : i \in DOMAIN d}
Get(d, k) == (CHOOSE e \in {d[i] : i \in DOMAIN d} : e.k = k).v
Set(d, k, v) ==
    IF k \in Keys(d)
    THEN [i \in DOMAIN d |-> IF d[i].k = k THEN Entry(k, v) ELSE d[i]]
    ELSE Append(d, Entry(k, v))

-----------------------------------------------------------------------------
(* Question (coconut/question.py). Question objects are referred to by     *)
(* their question id; qs is questions_by_id.                               *)

NoParent == {}

Question(raw) == [data |-> raw, parent |-> NoParent, children |-> <<>>]

question_id(q) == int(q.data.id.qid)
parent_qid(q) == int(q.data.parent_qid)
_title(q) == q.data.title
is_child(q) == q.parent # NoParent
has_children(q) == Len(q.children) > 0
ParentOf(qs, q) == Get(qs, CHOOSE p \in q.parent : TRUE)

title_base(qs, q) == _title(q)

title(qs, q) ==
    IF is_child(q)
    THEN Concat(_title(ParentOf(qs, q)),
                Concat(JStr(<<"[">>), Concat(_title(q), JStr(<<"]">>))))
    ELSE _title(q)

(* parent.link_child(child), with both objects named by their ids.         *)
link_child(qs, parent, child) ==
    LET p == Get(qs, parent)
        linked == Set(qs, parent,
                      [p EXCEPT !.children =
                          IF \E i \in DOMAIN @ : @[i] = child THEN @
                          ELSE Append(@, child)])
    IN  Set(linked, child, [Get(linked, child) EXCEPT !.parent = {parent}])

link_parent_oneway(qs, child, parent) ==
    Set(qs, child, [Get(qs, child) EXCEPT !.parent = {parent}])

link_parent(qs, child, parent) ==
    link_child(Set(qs, child, [Get(qs, child) EXCEPT !.parent = {parent}]),
               parent, child)

-----------------------------------------------------------------------------
(* QuestionGroup, and the loading of the questions (coconut/survey.py).    *)

QuestionGroup(parent) == [parent |-> parent]
child_items(qs, group) == Get(qs, group.parent).children
key(qs, group) == title(qs, Get(qs, group.parent))

_create_question_link(sv, parent, child) ==
    [sv EXCEPT !.questions_by_id = link_parent(@, child, parent)]

(* _create_question_group that files the group under the parent's own     *)
(* title, `q._title`.                                                      *)
_create_question_group_by_base(sv, q) ==
    IF _title(Get(sv.questions_by_id, q)) \notin Keys(sv.question_groups_by_key)
    THEN [sv EXCEPT !.question_groups_by_key =
             Set(@, _title(Get(sv.questions_by_id, q)), QuestionGroup(q))]
    ELSE sv

_create_question_group(sv, q) ==
    IF title(sv.questions_by_id, Get(sv.questions_by_id, q))
           \notin Keys(sv.question_groups_by_key)
    THEN [sv EXCEPT !.question_groups_by_key =
             Set(@, key(sv.questions_by_id, QuestionGroup(q)), QuestionGroup(q))]
    ELSE sv

(* The loop of _process_question_relationships from the i-th question on.  *)
RECURSIVE LinkFrom(_, _)
LinkFrom(sv, i) ==
    IF i > Len(sv.questions_by_id) THEN sv
    ELSE LET q == sv.questions_by_id[i].v IN
         IF parent_qid(q) \in Keys(sv.questions_by_id)
         THEN LinkFrom(_create_question_group(
                           _create_question_link(sv, parent_qid(q), question_id(q)),
                           parent_qid(q)),
                       i + 1)
         ELSE LinkFrom(sv, i + 1)

_process_question_relationships(sv) ==
    LinkFrom([sv EXCEPT !.question_groups_by_key = <<>>], 1)

RECURSIVE TitlesFrom(_, _)
TitlesFrom(sv, i) ==
    IF i > Len(sv.questions_by_id) THEN sv
    ELSE TitlesFrom([sv EXCEPT !.questions_by_title =
                        Set(@, title(sv.questions_by_id, sv.questions_by_id[i].v),
                            question_id(sv.questions_by_id[i].v))],
                    i + 1)

_create_question_title_mapping(sv) ==
    TitlesFrom([sv EXCEPT !.questions_by_title = <<>>], 1)

RECURSIVE IndexFrom(_, _, _)
IndexFrom(sv, listed, i) ==
    IF i > Len(listed) THEN sv
    ELSE IndexFrom([sv EXCEPT !.questions_by_id =
                       Set(@, question_id(Question(listed[i])), Question(listed[i]))],
                   listed, i + 1)

_load_questions(sv, listed) ==
    _create_question_title_mapping(
        _process_question_relationships(
            IndexFrom([sv EXCEPT !.questions_by_id = <<>>], listed, 1)))

(* The Questions sheet: one row per entry of the title index.              *)
_question_dataframe(sv) ==
    [i \in DOMAIN sv.questions_by_title |->
        [title |-> title(sv.questions_by_id,
                         Get(sv.questions_by_id, sv.questions_by_title[i].v)),
         qid |-> sv.questions_by_title[i].v]]

-----------------------------------------------------------------------------
(* The questions a server lists: at most MaxQuestions, each with its own  *)
(* id, a parent_qid that is 0 or an id, and a title.                       *)

MaxQuestions == 3

Digit(n) == JStr(<<Alphabet[Ord("0") + n]>>)

RawQuestion(qid, parent, name) ==
    [id |-> [qid |-> Digit(qid)], parent_qid |-> Digit(parent),
     title |-> name, question |-> JStr(<<"x">>)]

Qids == 1..MaxQuestions

(* A question has the title "A", which it may share with others, or a      *)
(* title of its own.                                                       *)
TitleNames == <<JStr(<<"A">>), JStr(<<"B">>), JStr(<<"C">>), JStr(<<"N">>),
                JStr(<<"P">>)>>

(* The id k steps up from id along the parent_qid values given by up.      *)
RECURSIVE Up(_, _, _)
Up(up, id, k) == IF k = 0 \/ id = 0 THEN id ELSE Up(up, up[id], k - 1)

(* The parent_qid values of a hierarchy: no question is its own ancestor.  *)
Hierarchies ==
    {up \in [Qids -> {0} \cup Qids] :
        \A id \in Qids : \A k \in Qids : Up(up, id, k) # id}

(* The orders in which some of the questions can be listed, each once.     *)
Orders ==
    UNION {{f \in [1..n -> Qids] : \A i, j \in 1..n : f[i] = f[j] => i = j} :
           n \in 0..MaxQuestions}

(* The lists: any of the questions of a hierarchy, each once, in any order.*)
QuestionLists ==
    {SubSeq([i \in DOMAIN ids |->
                RawQuestion(ids[i], up[ids[i]],
                            TitleNames[IF shared[ids[i]] THEN 1 ELSE ids[i]])],
            1, Len(ids)) :
        ids \in Orders, up \in Hierarchies, shared \in [Qids -> BOOLEAN]}

(* Survey._load_questions on the list the server sent.                     *)
LoadQuestions ==
    /\ ~survey.loaded
    /\ survey' = [_load_questions(survey, fetched) EXCEPT !.loaded = TRUE]
    /\ call' = [call EXCEPT !.name = "_load_questions"]
    /\ outcome' = Return(None)
    /\ UNCHANGED <<session_key, rpc_client, rpc_proxy, _authenticated,
                   _rpc_protocol_patched, live, untouched, trace, inflight,
                   error, data, response, credentials, fetched, answers,
                   processVars>>

InitLoad ==
    /\ Constructed
    /\ fetched \in QuestionLists
    /\ survey = EmptySurvey
    /\ answers = JNull
    /\ data = NoBody
    /\ response = NoResponse

NextLoad == LoadQuestions

SpecLoad == InitLoad /\ [][NextLoad]_vars

-----------------------------------------------------------------------------
(* Properties of the loaded hierarchy.                                     *)

LoadedIds == Keys(survey.questions_by_id)
Loaded(qid) == Get(survey.questions_by_id, qid)
ListedIds == {int(fetched[i].id.qid) : i \in DOMAIN fetched}
Occurrences(seq, x) == Cardinality({i \in DOMAIN seq : seq[i] = x})

(* C13: after the linking pass a question has a parent exactly when its    *)
(* parent_qid is the id of a loaded question; it then has that one parent, *)
(* and the parent's child map holds it, once, under its own id; the child  *)
(* maps hold nothing else. A parent_qid that names no loaded question      *)
(* leaves the question at the root, and loading ends without an error.     *)
C13_ParentLinks ==
    survey.loaded =>
        /\ outcome = Return(None)
        /\ LoadedIds = ListedIds
        /\ \A i \in DOMAIN fetched :
              LET id == int(fetched[i].id.qid)
                  pid == int(fetched[i].parent_qid)
              IN  IF pid \in ListedIds
                  THEN /\ Loaded(id).parent = {pid}
                       /\ Occurrences(Loaded(pid).children, id) = 1
                  ELSE Loaded(id).parent = {}
        /\ \A p \in LoadedIds : \A k \in DOMAIN Loaded(p).children :
              /\ Loaded(p).children[k] \in LoadedIds
              /\ Loaded(Loaded(p).children[k]).parent = {p}

C13_Witness ==
    /\ survey.loaded
    /\ Len(fetched) = 2
    /\ int(fetched[1].id.qid) = 1 /\ int(fetched[1].parent_qid) = 3
    /\ int(fetched[2].id.qid) = 2 /\ int(fetched[2].parent_qid) = 1
    /\ Loaded(1).parent = {} /\ Loaded(1).children = <<2>>
    /\ Loaded(2).parent = {1} /\ Loaded(2).children = <<>>

HasGroup(qid) ==
    \E i \in DOMAIN survey.question_groups_by_key :
        survey.question_groups_by_key[i].v.parent = qid

(* C14: after the questions are loaded a QuestionGroup exists for a        *)
(* question exactly when that question has at least one child.             *)
C14_GroupIffChildren ==
    survey.loaded =>
        \A qid \in LoadedIds : HasGroup(qid) <=> has_children(Loaded(qid))

(* The listed questions are one parent and its children, in any order,    *)
(* all with different titles.                                              *)
IsParent(r) ==
    /\ r \in DOMAIN fetched
    /\ int(fetched[r].parent_qid) = 0
    /\ \A i \in DOMAIN fetched \ {r} : fetched[i].parent_qid = fetched[r].id.qid

OneLevel ==
    /\ Len(fetched) >= 2
    /\ \E r \in DOMAIN fetched : IsParent(r)
    /\ \A i, j \in DOMAIN fetched : fetched[i].title = fetched[j].title => i = j

TheParent == fetched[CHOOSE r \in DOMAIN fetched : IsParent(r)]

Bracketed(parent, own) == JStr(parent.s \o <<"[">> \o own.s \o <<"]">>)

(* C15: the display title is the base title for a question without a      *)
(* parent and "{parent base title}[{own base title}]" for one with a       *)
(* parent, whatever the parent's own display title is. For one parent with *)
(* n children, all titles different, there is exactly one group, keyed by  *)
(* the parent's title, its n children are titled "P[c]", the parent has    *)
(* children and the children have none.                                    *)
C15_DisplayTitles ==
    survey.loaded =>
        /\ \A qid \in LoadedIds :
              title(survey.questions_by_id, Loaded(qid)) =
                  IF Loaded(qid).parent = {}
                  THEN Loaded(qid).data.title
                  ELSE Bracketed(Loaded(CHOOSE p \in Loaded(qid).parent : TRUE).data.title,
                                 Loaded(qid).data.title)
        /\ OneLevel =>
              /\ survey.question_groups_by_key =
                     <<Entry(TheParent.title, QuestionGroup(int(TheParent.id.qid)))>>
              /\ Len(child_items(survey.questions_by_id,
                                 survey.question_groups_by_key[1].v))
                     = Len(fetched) - 1
              /\ has_children(Loaded(int(TheParent.id.qid)))
              /\ \A i \in DOMAIN fetched :
                    fetched[i] # TheParent =>
                        /\ Occurrences(child_items(survey.questions_by_id,
                                                   survey.question_groups_by_key[1].v),
                                       int(fetched[i].id.qid)) = 1
                        /\ ~has_children(Loaded(int(fetched[i].id.qid)))
                        /\ Bracketed(TheParent.title, fetched[i].title)
                               \in Keys(survey.questions_by_title)
                        /\ Get(survey.questions_by_title,
                               Bracketed(TheParent.title, fetched[i].title))
                               = int(fetched[i].id.qid)

C15_Witness ==
    /\ survey.loaded
    /\ fetched = <<RawQuestion(2, 1, JStr(<<"B">>)),
                   RawQuestion(1, 0, JStr(<<"A">>)),
                   RawQuestion(3, 1, JStr(<<"C">>))>>
    /\ OneLevel
    /\ Keys(survey.question_groups_by_key) = {JStr(<<"A">>)}
    /\ Keys(survey.questions_by_title) =
           {JStr(<<"A">>), JStr(<<"A", "[", "B", "]">>), JStr(<<"A", "[", "C", "]">>)}

(* C19: the title index, built after all parent links, has exactly one     *)
(* entry per loaded question, under the question's final display title,    *)
(* and the Questions sheet has one row per loaded question.                *)
C19_OneEntryPerQuestion ==
    survey.loaded =>
        /\ Len(survey.questions_by_title) = Len(survey.questions_by_id)
        /\ \A qid \in LoadedIds :
              /\ title(survey.questions_by_id, Loaded(qid))
                     \in Keys(survey.questions_by_title)
              /\ Get(survey.questions_by_title,
                     title(survey.questions_by_id, Loaded(qid))) = qid
        /\ Len(_question_dataframe(survey)) = Len(survey.questions_by_id)

-----------------------------------------------------------------------------
(* clean_question_text, sorted and QuestionGroup.get_value.                *)

(* re.sub(r"[\n\t\r]", " ", t)                                             *)
sub_whitespace(t) ==
    [i \in DOMAIN t |-> IF t[i] \in {"\n", "\t", "\r"} THEN " " ELSE t[i]]

(* re.sub(r"<.*?>", " ", t, count=1): the match ends at the first ">".     *)
sub_tags_shortest(t) ==
    LET opens == {i \in DOMAIN t : t[i] = "<"}
    IN  IF opens = {} THEN t
        ELSE LET first == CHOOSE i \in opens : \A j \in opens : i <= j
                 closes == {i \in DOMAIN t : t[i] = ">" /\ i > first}
             IN  IF closes = {} THEN t
                 ELSE LET last == CHOOSE i \in closes : \A j \in closes : i <= j
                      IN  SubSeq(t, 1, first - 1) \o <<" ">>
                          \o SubSeq(t, last + 1, Len(t))

(* re.sub(r"<.*>", " ", t) on a text without line breaks: the one match    *)
(* runs from the first "<" to the last ">".                                *)
sub_tags(t) ==
    LET opens == {i \in DOMAIN t : t[i] = "<"}
        closes == {i \in DOMAIN t : t[i] = ">"}
    IN  IF opens = {} \/ closes = {} THEN t
        ELSE LET first == CHOOSE i \in opens : \A j \in opens : i <= j
                 last == CHOOSE i \in closes : \A j \in closes : j <= i
             IN  IF last < first THEN t
                 ELSE SubSeq(t, 1, first - 1) \o <<" ">> \o SubSeq(t, last + 1, Len(t))

(* re.sub(r" +", " ", t)                                                   *)
RECURSIVE sub_spaces(_)
sub_spaces(t) ==
    IF Len(t) < 2 THEN t
    ELSE IF t[1] = " " /\ t[2] = " " THEN sub_spaces(Tail(t))
    ELSE <<t[1]>> \o sub_spaces(Tail(t))

clean_question_text(text) == JStr(sub_spaces(sub_tags(sub_whitespace(text.s))))

text(q) == clean_question_text(q.data.question)

(* sorted(values): each value goes behind the values that are not greater. *)
RECURSIVE sorted(_)
sorted(values) ==
    IF values = <<>> THEN <<>>
    ELSE LET front == sorted(SubSeq(values, 1, Len(values) - 1))
             x == values[Len(values)]
             k == Cardinality({i \in DOMAIN front : ~LexLess(x.s, front[i].s)})
         IN  SubSeq(front, 1, k) \o <<x>> \o SubSeq(front, k + 1, Len(front))

(* response.get_answer(key): the answer stored under the key, KeyError     *)
(* when there is none. A sub-question is looked up under its display title.*)
get_answer(resp, k) ==
    IF k \in Keys(resp) THEN Return(Get(resp, k))
    ELSE Raise(Exc("KeyError", <<k>>))

NA == JStr(<<"N", "/", "A">>)
NoneText == JStr(<<"N", "o", "n", "e">>)
OtherKey(qs, group) ==
    Concat(title(qs, Get(qs, group.parent)),
           JStr(<<"[", "o", "t", "h", "e", "r", "]">>))

get_other_value_raw(qs, group, resp) ==
    LET r == get_answer(resp, OtherKey(qs, group)) IN
    IF r.kind = "raise" THEN Return(None) ELSE r

get_other_value_uncaught(qs, group, resp) ==
    LET r == get_answer(resp, OtherKey(qs, group)) IN
    IF r.kind = "return" /\ r.value = NoneText THEN Return(None) ELSE r

get_other_value(qs, group, resp) ==
    LET r == get_answer(resp, OtherKey(qs, group)) IN
    IF r.kind = "raise" THEN Return(None)
    ELSE IF r.value = NoneText THEN Return(None)
    ELSE r

(* The loop of get_value from the i-th sub-question on.                    *)
RECURSIVE ValuesFrom(_, _, _, _, _)
ValuesFrom(qs, items, resp, i, response_values) ==
    IF i > Len(items) THEN Return(response_values)
    ELSE LET sq == Get(qs, items[i])
             answer == get_answer(resp, title(qs, sq))
         IN  IF answer.kind = "raise" THEN answer
             ELSE IF answer.value = NA
             THEN ValuesFrom(qs, items, resp, i + 1, response_values)
             ELSE ValuesFrom(qs, items, resp, i + 1, Append(response_values, text(sq)))

get_value_unsorted(qs, group, resp) ==
    LET looped == ValuesFrom(qs, child_items(qs, group), resp, 1, <<>>) IN
    IF looped.kind = "raise" THEN looped
    ELSE LET other_value == get_other_value(qs, group, resp).value IN
         Return(JList(IF other_value # None
                      THEN Append(looped.value, other_value)
                      ELSE looped.value))

get_value(qs, group, resp) ==
    LET looped == ValuesFrom(qs, child_items(qs, group), resp, 1, <<>>) IN
    IF looped.kind = "raise" THEN looped
    ELSE LET other == get_other_value(qs, group, resp) IN
         IF other.kind = "raise" THEN other
         ELSE Return(JList(IF other.value # None
                           THEN Append(sorted(looped.value), other.value)
                           ELSE sorted(looped.value)))

-----------------------------------------------------------------------------
(* Survey.title, and a loaded survey in use.                               *)

(* str(v) of a number or a string.                                         *)
RECURSIVE Decimal(_)
Decimal(n) ==
    IF n < 10 THEN Digit(n).s ELSE Decimal(n \div 10) \o Digit(n % 10).s

str(v) == IF v.t = "num" THEN JStr(Decimal(v.n)) ELSE v

Subscript(v, k) ==
    IF ~IsObj(v) THEN Raise(Exc("TypeError", <<JStr("subscript")>>))
    ELSE IF ~HasKey(v, k) THEN Raise(Exc("KeyError", <<JStr(k)>>))
    ELSE Return(v.o[k])

(* The property Survey.title.                                              *)
SurveyTitle(sv) ==
    IF sv._title = None
    THEN IF Subscript(sv.survey_props, "surveyls_title").kind = "raise"
         THEN Return(Concat(JStr(<<"S", "u", "r", "v", "e", "y", " ">>), str(sv.survey_id)))
         ELSE Return(JStr(<<"S", "u", "r", "v", "e", "y">>))
    ELSE Return(sv._title)

MaxChildren == 2


(* One parent "Q" with n sub-questions of the given question texts.        *)
ParentWith(texts) ==
    <<RawQuestion(1, 0, JStr(<<"Q">>))>>
    \o [i \in DOMAIN texts |->
           [RawQuestion(i + 1, 1, TitleNames[i]) EXCEPT !.question = texts[i]]]

(* The response that answers the i-th sub-question with given[i] and the   *)
(* "other" field with other; Absent stands for no entry.                   *)
ResponseWith(given, other) ==
    LET present(e) == e.v # Absent IN
    SelectSeq([i \in DOMAIN given |->
                  Entry(JStr(<<"Q", "[">> \o TitleNames[i].s \o <<"]">>), given[i])]
              \o <<Entry(JStr(<<"Q", "[", "o", "t", "h", "e", "r", "]">>), other)>>,
              present)

(* group.get_value(response) for a group of the survey.                    *)
GetValue ==
    /\ call.name = "none"
    /\ \E i \in DOMAIN survey.question_groups_by_key :
          outcome' = get_value(survey.questions_by_id,
                               survey.question_groups_by_key[i].v, answers)
    /\ call' = [call EXCEPT !.name = "get_value"]
    /\ UNCHANGED <<session_key, rpc_client, rpc_proxy, _authenticated,
                   _rpc_protocol_patched, live, untouched, trace, inflight,
                   error, data, response, credentials, surveyVars, processVars>>

(* survey.title                                                            *)
ReadTitle ==
    /\ call.name = "none"
    /\ outcome' = SurveyTitle(survey)
    /\ call' = [call EXCEPT !.name = "title"]
    /\ UNCHANGED <<session_key, rpc_client, rpc_proxy, _authenticated,
                   _rpc_protocol_patched, live, untouched, trace, inflight,
                   error, data, response, credentials, surveyVars, processVars>>

(* A loaded survey of one parent with up to MaxChildren sub-questions, a  *)
(* response with or without an answer per sub-question and for "other",    *)
(* a title given or not, and the survey properties the server sent.        *)
InitUse ==
    /\ Constructed
    /\ \E n \in 1..MaxChildren :
       \E texts \in [1..n -> {JStr(<<"b">>), JStr(<<"a">>),
                              JStr(<<"a", "\n", "<", "b", ">", "c">>)}],
          given \in [1..n -> {Absent, NA, JStr(<<"y">>)}] :
       \E other \in {Absent, JNull, JStr(<<>>), NoneText, JStr(<<"a">>)},
          name \in {None, JStr(<<"x">>)},
          props \in {None, JStr(<<"x">>), JObj([sid |-> JNum(7)]),
                     JObj([sid |-> JNum(7), surveyls_title |-> JStr(<<"x">>)])} :
          /\ fetched = ParentWith(texts)
          /\ survey = [_load_questions(EmptySurvey, ParentWith(texts))
                          EXCEPT !.loaded = TRUE, !._title = name,
                                 !.survey_id = JNum(12), !.survey_props = props]
          /\ answers = ResponseWith(given, other)
    /\ data = NoBody
    /\ response = NoResponse

NextUse == GetValue \/ ReadTitle

SpecUse == InitUse /\ [][NextUse]_vars

-----------------------------------------------------------------------------
(* Properties of get_value.                                                *)

TheGroup == survey.question_groups_by_key[1].v
Items == child_items(survey.questions_by_id, TheGroup)
SubKey(i) == title(survey.questions_by_id, Loaded(Items[i]))
OtherField == JStr(<<"Q", "[", "o", "t", "h", "e", "r", "]">>)
OtherGiven == IF OtherField \in Keys(answers) THEN Get(answers, OtherField) ELSE Absent

AllSubAnswered == \A i \in DOMAIN Items : SubKey(i) \in Keys(answers)
Selected == {i \in DOMAIN Items : Get(answers, SubKey(i)) # NA}

(* The first Cardinality(Selected) elements of the list are the cleaned    *)
(* texts of the selected sub-questions, each as often as it was selected,  *)
(* in ascending order.                                                     *)
SortedTexts(l) ==
    /\ Len(l) >= Cardinality(Selected)
    /\ \A i \in 1..Cardinality(Selected) :
          /\ Cardinality({j \in 1..Cardinality(Selected) : l[j] = l[i]})
                 = Cardinality({j \in Selected : text(Loaded(Items[j])) = l[i]})
          /\ \A j \in 1..Cardinality(Selected) : i < j => ~LexLess(l[j].s, l[i].s)
    /\ \A j \in Selected :
          \E i \in 1..Cardinality(Selected) : l[i] = text(Loaded(Items[j]))

OtherLast(l) ==
    /\ Len(l) = Cardinality(Selected) + 1
    /\ l[Len(l)] = OtherGiven

NoOther(l) == Len(l) = Cardinality(Selected)

(* C16 as stated: get_value returns the cleaned texts of the sub-questions *)
(* whose answer is not "N/A", sorted, followed by the "other" answer as    *)
(* the last element when that key is present and its value is not the      *)
(* string "None".                                                          *)
C16_OtherUnlessNoneText ==
    (call.name = "get_value" /\ AllSubAnswered) =>
        /\ outcome.kind = "return"
        /\ SortedTexts(outcome.value.l)
        /\ IF OtherGiven \notin {Absent, NoneText}
           THEN OtherLast(outcome.value.l)
           ELSE NoOther(outcome.value.l)

(* C16, amended: ... followed by the "other" answer as the last element    *)
(* when that key is present and its value is neither null nor the string   *)
(* "None"; the "other" answer is last whatever its text and is appended at *)
(* most once.                                                              *)
C16_SortedThenOther ==
    (call.name = "get_value" /\ AllSubAnswered) =>
        /\ outcome.kind = "return"
        /\ SortedTexts(outcome.value.l)
        /\ IF OtherGiven \notin {Absent, JNull, NoneText}
           THEN OtherLast(outcome.value.l)
           ELSE NoOther(outcome.value.l)

C16_Witness ==
    /\ call.name = "get_value"
    /\ answers = ResponseWith(<<JStr(<<"y">>), JStr(<<"y">>)>>, JStr(<<"a">>))
    /\ fetched = ParentWith(<<JStr(<<"b">>), JStr(<<"a", "\n", "<", "b", ">", "c">>)>>)
    /\ outcome = Return(JList(<<JStr(<<"a", " ", "c">>), JStr(<<"b">>), JStr(<<"a">>)>>))

(* C17 as stated: in get_value a lookup of a key the response lacks, for a *)
(* sub-question's answer as for the "other" answer, never surfaces as an   *)
(* error.                                                                  *)
C17_NoLookupError ==
    call.name = "get_value" => outcome.kind = "return"

(* C17, amended: a missing "other" key is handled silently (no "other"     *)
(* value); a missing sub-question key is not: get_value ends with the      *)
(* KeyError of the first sub-question the response has no answer for.      *)
C17_OnlyOtherIsSilent ==
    call.name = "get_value" =>
        IF AllSubAnswered
        THEN /\ outcome.kind = "return"
             /\ OtherGiven = Absent => NoOther(outcome.value.l)
        ELSE \E i \in DOMAIN Items :
                /\ SubKey(i) \notin Keys(answers)
                /\ \A j \in 1..(i - 1) : SubKey(j) \in Keys(answers)
                /\ outcome = Raise(Exc("KeyError", <<SubKey(i)>>))

C17_Witness ==
    /\ call.name = "get_value"
    /\ AllSubAnswered
    /\ Len(Items) = 2
    /\ Selected = {2}
    /\ OtherGiven = Absent
    /\ outcome = Return(JList(<<text(Loaded(Items[2]))>>))

(* C18 as stated: the "other" value never appears in the result when it is absent,   *)
(* null, the empty string or the string "None".                            *)
C18_EmptyOtherOmitted ==
    (call.name = "get_value" /\ outcome.kind = "return") =>
        (OtherGiven \in {Absent, JNull, JStr(<<>>), NoneText}
            => NoOther(outcome.value.l))

(* C18, amended: an "other" value that is absent, null or the string       *)
(* "None" never appears in the result; an empty string is a value like any *)
(* other text and is appended last.                                        *)
C18_ValuelessOtherOmitted ==
    (call.name = "get_value" /\ outcome.kind = "return") =>
        /\ OtherGiven \in {Absent, JNull, NoneText} => NoOther(outcome.value.l)
        /\ OtherGiven = JStr(<<>>) => OtherLast(outcome.value.l)

C18_Witness ==
    /\ call.name = "get_value"
    /\ AllSubAnswered
    /\ Selected = {1}
    /\ OtherGiven = NoneText
    /\ outcome = Return(JList(<<text(Loaded(Items[1]))>>))

-----------------------------------------------------------------------------
(* Properties of Survey.title.                                             *)

(* C20: Survey.title is the title given to the constructor when there is   *)
(* one; without one it is "Survey <id>" when the title is not found in the *)
(* survey properties, and it is never the bare "Survey" of the last line.  *)
C20_TitleOrFallback ==
    call.name = "title" =>
        /\ survey._title # None => outcome = Return(survey._title)
        /\ (survey._title = None
            /\ ~(IsObj(survey.survey_props)
                 /\ HasKey(survey.survey_props, "surveyls_title")))
           => outcome = Return(JStr(<<"S", "u", "r", "v", "e", "y", " ", "1", "2">>))
        /\ survey._title = None
           => outcome # Return(JStr(<<"S", "u", "r", "v", "e", "y">>))

-----------------------------------------------------------------------------
(* Question.text on question texts made of up to MaxPieces pieces: a       *)
(* letter, a tag, a lone bracket, a line break, a tab, a carriage return   *)
(* or a space.                                                             *)

MaxPieces == 4

(* question.text of the one question of the survey.                        *)
ReadText ==
    /\ call.name = "none"
    /\ outcome' = Return(text(Get(survey.questions_by_id, 1)))
    /\ call' = [call EXCEPT !.name = "text"]
    /\ UNCHANGED <<session_key, rpc_client, rpc_proxy, _authenticated,
                   _rpc_protocol_patched, live, untouched, trace, inflight,
                   error, data, response, credentials, surveyVars, processVars>>

InitClean ==
    /\ Constructed
    /\ \E n \in 0..MaxPieces :
       \E pieces \in [1..n -> {<<"a">>, <<"<", "b", ">">>, <<"<">>, <<">">>,
                               <<"\n">>, <<"\t">>, <<"\r">>, <<" ">>}] :
          LET RECURSIVE Join(_)
              Join(ps) == IF ps = <<>> THEN <<>> ELSE Head(ps) \o Join(Tail(ps))
              listed == <<[RawQuestion(1, 0, TitleNames[1])
                              EXCEPT !.question = JStr(Join(pieces))]>>
          IN  /\ fetched = listed
              /\ survey = [_load_questions(EmptySurvey, listed)
                              EXCEPT !.loaded = TRUE]
    /\ answers = JNull
    /\ data = NoBody
    /\ response = NoResponse

NextClean == ReadText

SpecClean == InitClean /\ [][NextClean]_vars

-----------------------------------------------------------------------------
(* Properties of clean_question_text.                                      *)

RawText == fetched[1].question.s
Blank == {"\n", "\t", "\r", " "}

(* The k-th smallest element of a set of positions.                        *)
Nth(S, k) == CHOOSE i \in S : Cardinality({j \in S : j < i}) = k - 1

(* The lines of a text: the stretches between its line feeds.              *)
LineStarts(t) == {i \in 1..(Len(t) + 1) : i = 1 \/ t[i - 1] = "\n"}
LineEnd(t, from) ==
    CHOOSE e \in (from - 1)..Len(t) :
        /\ \A i \in from..e : t[i] # "\n"
        /\ e = Len(t) \/ t[e + 1] = "\n"

(* The positions of line [from, to] of t from its first "<" to its last    *)
(* ">", when the one comes before the other.                               *)
TagSpan(t, from, to) ==
    LET opens == {i \in from..to : t[i] = "<"}
        closes == {i \in from..to : t[i] = ">"}
    IN  {i \in from..to : /\ \E j \in opens : j <= i
                          /\ \E j \in closes : i <= j
                          /\ \E j \in opens : \E k \in closes :
                                /\ \A o \in opens : j <= o
                                /\ \A c \in closes : c <= k
                                /\ j < k}

(* The text that is left of t when the positions of gone are replaced by   *)
(* one space per stretch, every blank character is a space and every run   *)
(* of spaces is one space.                                                 *)
Cleaned(t, gone) ==
    LET isSpace(i) == i \in gone \/ t[i] \in Blank
        kept == {i \in DOMAIN t : ~isSpace(i) \/ i = 1 \/ ~isSpace(i - 1)}
    IN  [k \in 1..Cardinality(kept) |->
            IF isSpace(Nth(kept, k)) THEN " " ELSE t[Nth(kept, k)]]

(* The tag spans taken line by line, and the one span of the whole text.   *)
SpansByLine(t) ==
    UNION {TagSpan(t, from, LineEnd(t, from)) : from \in LineStarts(t)}
SpanOfText(t) == TagSpan(t, 1, Len(t))

(* C21 as stated: blanks become spaces, on every input line the span from  *)
(* its first "<" to its last ">" becomes one space, tag spans on different *)
(* lines being removed separately and the text between them kept, and runs *)
(* of spaces become one space.                                             *)
C21_TagsRemovedByLine ==
    call.name = "text" =>
        outcome = Return(JStr(Cleaned(RawText, SpansByLine(RawText))))

(* C21, amended: blanks become spaces, the one span from the first "<" of  *)
(* the whole text to its last ">" becomes one space, whatever lines the    *)
(* two are on and whatever lies between them, and runs of spaces become    *)
(* one space.                                                              *)
C21_TagsRemovedAcrossLines ==
    call.name = "text" =>
        outcome = Return(JStr(Cleaned(RawText, SpanOfText(RawText))))

(* The text "<b>a\n<b>" has a tag on each of its two lines and is cleaned  *)
(* to one space.                                                           *)
C21_Witness ==
    /\ call.name = "text"
    /\ RawText = <<"<", "b", ">", "a", "\n", "<", "b", ">">>
    /\ outcome = Return(JStr(<<" ">>))

-----------------------------------------------------------------------------
(* One process with up to MaxClients LimeAPI objects. The variables of    *)
(* the client hold the object the next call is made on; clients holds the *)
(* others. _rpc_protocol_patched belongs to the class and is one for all. *)

MaxClients == 2

Client == [session_key |-> session_key, rpc_client |-> rpc_client,
           rpc_proxy |-> rpc_proxy, _authenticated |-> _authenticated,
           untouched |-> untouched]

(* LimeAPI(url, username, password) once more, for the same server.        *)
NewClient ==
    /\ Len(clients) + 1 < MaxClients
    /\ \E r \in {New(credentials.url, credentials.username,
                      credentials.password, None)} :
        /\ r.result.kind = "return"
        /\ clients' = Append(clients, Client)
        /\ session_key' = r.self.session_key
        /\ rpc_client' = r.self.rpc_client
        /\ rpc_proxy' = r.self.rpc_proxy
        /\ _authenticated' = r.self._authenticated
        /\ untouched' = FALSE
        /\ call' = [name |-> "__init__", args |-> NoArgs, pre |-> Pre]
        /\ trace' = r.events
        /\ inflight' = NoExc
        /\ error' = NoExc
        /\ outcome' = r.result
    /\ UNCHANGED <<_rpc_protocol_patched, live, data, response, credentials,
                   surveyVars, patches>>

(* The code that owns the clients turns to another of them.                *)
UseClient ==
    \E i \in DOMAIN clients :
        /\ clients' = [clients EXCEPT ![i] = Client]
        /\ session_key' = clients[i].session_key
        /\ rpc_client' = clients[i].rpc_client
        /\ rpc_proxy' = clients[i].rpc_proxy
        /\ _authenticated' = clients[i]._authenticated
        /\ untouched' = clients[i].untouched
        /\ UNCHANGED <<_rpc_protocol_patched, live, call, trace, inflight, error,
                       outcome, data, response, credentials, surveyVars, patches>>

NextProcess ==
    \/ CallAuthenticate
    \/ list_surveys
    \/ NewClient
    \/ UseClient

SpecProcess == Init /\ [][NextProcess]_vars

(* C22: whatever authenticate() calls were made on whatever clients of the *)
(* process, the reply parser was patched at most once; a call that ran     *)
(* authenticate() leaves it patched, and patched it itself only if it was  *)
(* not patched before, once and before it asked for the session key.       *)
C22_PatchedOnce ==
    /\ patches <= 1
    /\ Count(trace, "authenticate") > 0 => patches = 1
    /\ Count(trace, "patch") <= 1
    /\ \A i, j \in DOMAIN trace :
          trace[i].ev = "patch" /\ trace[j].ev \in {"RPCClient", "get_session_key"}
              => i < j

(* The second client authenticates after the first one has: the parser is  *)
(* not patched again.                                                      *)
C22_Witness ==
    /\ Len(clients) = 1
    /\ clients[1]._authenticated
    /\ call.name = "authenticate"
    /\ ~call.pre.authenticated
    /\ Count(trace, "authenticate") = 1
    /\ Count(trace, "patch") = 0
    /\ patches = 1

-----------------------------------------------------------------------------
(* The token and the handles at the moment an operation is sent: those   *)
(* the call started with, unless the call has replaced them before.        *)

Sent == {i \in DOMAIN trace : trace[i].ev = "rpc"}

Earlier(i, ev) == \E j \in 1..(i - 1) : trace[j].ev = ev

StoredKeyAt(i) ==
    IF Earlier(i, "session_key")
    THEN trace[CHOOSE j \in 1..(i - 1) : trace[j].ev = "session_key"].key
    ELSE call.pre.session_key

HandlesAt(i) ==
    call.pre.rpc_valid \/ (Earlier(i, "RPCClient") /\ Earlier(i, "get_proxy"))

(* C23: an API operation sends its call only with a stored token that is a *)
(* non-empty string and with both handles in place; when the client was    *)
(* not in that state at the start of the operation, the call is sent only  *)
(* after an authentication that succeeded in this operation, and otherwise *)
(* the operation raises and sends nothing.                                 *)
C23_NoCallWithoutSession ==
    ApiCalled =>
        /\ \A i \in Sent :
              /\ IsStr(StoredKeyAt(i)) /\ Len(StoredKeyAt(i).s) > 0
              /\ trace[i].key = StoredKeyAt(i)
              /\ HandlesAt(i)
              /\ NeedsAuth(call.pre) => Earlier(i, "acquired")
        /\ (NeedsAuth(call.pre) /\ ~Acquired(trace)) =>
              Sent = {} /\ outcome.kind = "raise"

(* A client that was authenticated and then failed to authenticate again   *)
(* holds an unusable token with _authenticated still set; its next         *)
(* operation authenticates first and then sends the call.                  *)
C23_Witness ==
    /\ ApiCalled
    /\ call.pre.authenticated /\ ~call.pre.key_valid /\ call.pre.rpc_valid
    /\ Acquired(trace)
    /\ Sent # {}
    /\ outcome.kind = "return"

-----------------------------------------------------------------------------
(* Properties of the group map.                                            *)

Groups == survey.question_groups_by_key
ListedAt(qid) == CHOOSE i \in DOMAIN fetched : int(fetched[i].id.qid) = qid

(* The parent of the group was linked to a parent of its own after one of  *)
(* its children was processed.                                             *)
LinkedLater(qid) ==
    /\ is_child(Loaded(qid))
    /\ \E i \in DOMAIN Loaded(qid).children :
          ListedAt(Loaded(qid).children[i]) < ListedAt(qid)

(* C24 as stated: every group is filed under the key it reports, the       *)
(* display title its parent question has now.                              *)
C24_FiledUnderCurrentKey ==
    survey.loaded =>
        \A i \in DOMAIN Groups :
            Groups[i].k = key(survey.questions_by_id, Groups[i].v)

(* C24, amended: a group is filed under the key it reports unless its      *)
(* parent question was linked to a parent of its own after one of its      *)
(* children was processed; such a group is filed under the parent's own    *)
(* title, which is no longer its key.                                      *)
C24_FiledUnderKeyAtCreation ==
    survey.loaded =>
        \A i \in DOMAIN Groups :
            \/ Groups[i].k = key(survey.questions_by_id, Groups[i].v)
            \/ /\ LinkedLater(Groups[i].v.parent)
               /\ Groups[i].k = _title(Loaded(Groups[i].v.parent))

(* Question 2 ("B", under 3) is listed before question 3 ("C", under 1)    *)
(* and question 1 ("A"): the group of question 3 is filed under "C" and    *)
(* reports "A[C]"; the group of question 1 is filed under its key "A".     *)
C24_Witness ==
    /\ survey.loaded
    /\ fetched = <<RawQuestion(2, 3, TitleNames[2]), RawQuestion(3, 1, TitleNames[3]),
                   RawQuestion(1, 0, TitleNames[1])>>
    /\ Groups = <<Entry(JStr(<<"C">>), QuestionGroup(3)),
                  Entry(JStr(<<"A">>), QuestionGroup(1))>>
    /\ key(survey.questions_by_id, QuestionGroup(3)) = JStr(<<"A", "[", "C", "]">>)
    /\ key(survey.questions_by_id, QuestionGroup(1)) = JStr(<<"A">>)

-----------------------------------------------------------------------------
(* The hierarchy and the order of the list.                                *)

(* What a loaded survey holds, without the order of its dicts: for every   *)
(* question its parent and its children, the groups by key, the questions  *)
(* by title.                                                               *)
Hierarchy(sv) ==
    [links |-> {<<e.k, e.v.parent, {e.v.children[i] : i \in DOMAIN e.v.children}>> :
                   e \in {sv.questions_by_id[i] : i \in DOMAIN sv.questions_by_id}},
     groups |-> {<<e.k, e.v.parent>> :
                    e \in {sv.question_groups_by_key[i] :
                              i \in DOMAIN sv.question_groups_by_key}},
     titles |-> {<<e.k, e.v>> :
                    e \in {sv.questions_by_title[i] :
                              i \in DOMAIN sv.questions_by_title}}]

(* The same questions listed in another order.                             *)
Reorderings(listed) ==
    {SubSeq([i \in DOMAIN listed |-> listed[f[i]]], 1, Len(listed)) :
        f \in {g \in [DOMAIN listed -> DOMAIN listed] :
                  \A i, j \in DOMAIN listed : g[i] = g[j] => i = j}}

(* C25: the links, the groups with their keys and the title index are the  *)
(* same in whatever order the server lists the questions.                  *)
C25_OrderIndependent ==
    survey.loaded =>
        \A other \in Reorderings(fetched) :
            Hierarchy(_load_questions(EmptySurvey, other)) = Hierarchy(survey)

====
